---- MODULE Spec2Model ----
\* A model of the roku REST client (src/client.go): Fetch, do, readBody,
\* ReadJSON, DefaultInvalidStatusCodeValidator and FetchRx with its
\* back-off retry.  Time is discrete: one tick stands for 10 ms, the
\* interval readBody re-arms the deadline timer with.
EXTENDS Integers, Sequences, FiniteSets, TLC

VARIABLES
    input,      \* the arguments of the Fetch / FetchRx call under study
    calls,      \* one record per Fetch invocation (its locals, timer, context, response)
    parent,     \* the caller's context: "live" or "canceled"
    nfetch,     \* number of Fetch invocations started so far
    rx,         \* the goroutine BackOffRetry starts: backoff.Retry around Observe
    prod,       \* per attempt: the producer goroutine and its item channel
    consumer,   \* the reader of the observable's channel
    code,       \* status code handed to the validator (validator specification)
    verdict,    \* what the validator answered for code ("unset" before the call)
    arg,        \* the argument of the pure function under study (ReadJSON, To)
    out         \* what it returned ("unset" before the call)

vars == <<input, calls, parent, nfetch, rx, prod, consumer, code, verdict, arg, out>>

\* ---------------------------------------------------------------- bounds
MaxRetries == 2
MaxDeadline == 2
MaxLatency == 3
MaxChunks == 1
MaxChunkWait == 2
MaxBackoff == 1
MinCode == 100
MaxCode == 999
MaxDocLen == 2
MaxDescribe == 2

\* ------------------------------------------------------ program constants
\* readBody re-arms the timer with 10 ms before every chunk: one tick.
ReadReset == 1
StatusNoContent == 204

CallIds == 1..(MaxRetries + 2)

Methods == {"GET", "POST", "PUT", "PATCH", "DELETE"}

\* The methods that carry a request body.
BodyMethods == {"POST", "PUT", "PATCH"}

\* The request pointer: nil, a value json.Marshal accepts, a value it rejects
\* for its type (a channel, a function), a value it rejects for its content
\* (a NaN or infinite float).
ReqKinds == {"nil", "ok", "unserializable", "unsupportedValue"}

\* Status codes the modelled server answers with: the class boundaries for a
\* direct call, one code per behaviour under retry.
StatusCodes == {200, 204, 399, 400, 599, 600}
RetryStatusCodes == {200, 204, 404}

\* ---------------------------------------------------------------- errors
\* An error value: the sentinel it matches under errors.Is / errors.As and,
\* for ErrInvalidHttpStatus, the response it wraps (the id of the call).  An
\* error made by a wrapping fmt.Errorf has a third field, msg: the text put
\* in front of the sentinel's own.
NoErr == [kind |-> "nil", res |-> 0]
Err(kind) == [kind |-> kind, res |-> 0]
ErrTimeOut == Err("ErrTimeOut")
ErrMarshallValue == Err("ErrMarshallValue")
ErrNilValue == Err("ErrNilValue")
ErrTimerNotSet == Err("ErrTimerNotSet")
ErrInvalidHttpStatus(k) == [kind |-> "ErrInvalidHttpStatus", res |-> k]

ErrorsIs(err, target) == err.kind = target.kind

\* --------------------------------------------------------- pure functions
\* (res.StatusCode/100)/4 == 1 || (res.StatusCode/100)/5 == 1, integer division.
DefaultInvalidStatusCodeValidator(c) ==
    ((c \div 100) \div 4 = 1) \/ ((c \div 100) \div 5 = 1)

\* A caller-supplied validator used next to the default one: anything but 2xx.
Not2xxValidator(c) == (c \div 100) # 2

Validators == {"Default", "Not2xx"}

statusCodeValidator(v, c) ==
    IF v = "Default" THEN DefaultInvalidStatusCodeValidator(c) ELSE Not2xxValidator(c)

\* json.Marshal(value): the message of its error, "" when it succeeds.
MarshalError(req) ==
    CASE req = "unserializable" -> "json: unsupported type"
      [] req = "unsupportedValue" -> "json: unsupported value"
      [] OTHER -> ""

\* The verb %q: the string in double quotes.
Quote(str) == <<"\"", str, "\"">>

\* fmt.Errorf("%q: %w", msg, target): matches target, text starts with msg quoted.
Wrap(msg, target) == [kind |-> target.kind, res |-> target.res, msg |-> Quote(msg)]

toBytesReaderBareSentinel(req) ==
    CASE req = "nil" -> [reader |-> "nil", err |-> ErrNilValue]
      [] MarshalError(req) # "" -> [reader |-> "nil", err |-> ErrMarshallValue]
      [] OTHER -> [reader |-> "bytes", err |-> NoErr]

toBytesReader(req) ==
    CASE req = "nil" -> [reader |-> "nil", err |-> ErrNilValue]
      [] MarshalError(req) # "" ->
           [reader |-> "nil", err |-> Wrap(MarshalError(req), ErrMarshallValue)]
      [] OTHER -> [reader |-> "bytes", err |-> NoErr]

\* ---------------------------------------------------------------- headers
\* The caller's header map, map[string]string: nil or a set of <<key, value>>
\* pairs with one value per key.  Keys are case-sensitive in the map.
HeaderKeys == {"accept", "Accept", "x-id"}
HeaderValues == {"a", "b"}

NilMap == [nil |-> TRUE, kv |-> {}]
MapOf(kv) == [nil |-> FALSE, kv |-> kv]

HeaderMaps ==
    {NilMap} \cup
    {MapOf(kv) : kv \in {s \in SUBSET (HeaderKeys \X HeaderValues) :
                            \A p \in s, q \in s : p[1] = q[1] => p = q}}

\* The map the calls of the other specifications pass.
CallerHeaders == MapOf({<<"x-id", "a">>, <<"Accept", "b">>})

\* textproto.CanonicalMIMEHeaderKey, which http.Header.Add applies to the key.
CanonicalMIMEHeaderKey(key) ==
    CASE key = "accept" -> "Accept"
      [] key = "x-id" -> "X-Id"
      [] OTHER -> key

\* The http.Client of NewHTTPClient: the three fields it sets.
HTTPClient ==
    [Timeout |-> "timeout", Transport |-> "roundTripper",
     CheckRedirect |-> "redirectPolicy"]

\* The header of a request made by http.NewRequestWithContext: empty.
\* A header is a set of <<canonical key, value, number of occurrences>>; the
\* order of the values under one key follows the iteration order of the map
\* and is not recorded.
NoHeader == {}

\* if headers != nil { for k, v := range headers { req.Header.Add(k, v) } }
\* Header: the request's header afterwards; headers: the caller's map
\* afterwards.
AddHeadersCanonicalizesMap(headers) ==
    [Header |-> IF headers.nil THEN NoHeader
                ELSE {<<CanonicalMIMEHeaderKey(p[1]), p[2],
                        Cardinality({q \in headers.kv :
                            /\ CanonicalMIMEHeaderKey(q[1]) = CanonicalMIMEHeaderKey(p[1])
                            /\ q[2] = p[2]})>> : p \in headers.kv},
     headers |-> IF headers.nil THEN headers
                 ELSE MapOf({<<CanonicalMIMEHeaderKey(p[1]), p[2]>> : p \in headers.kv})]

AddHeadersSetsUserAgent(headers) ==
    [Header |-> (IF headers.nil THEN NoHeader
                 ELSE {<<CanonicalMIMEHeaderKey(p[1]), p[2],
                         Cardinality({q \in headers.kv :
                             /\ CanonicalMIMEHeaderKey(q[1]) = CanonicalMIMEHeaderKey(p[1])
                             /\ q[2] = p[2]})>> : p \in headers.kv})
                \cup {<<"User-Agent", "roku", 1>>},
     headers |-> headers]

AddHeaders(headers) ==
    [Header |-> IF headers.nil THEN NoHeader
                ELSE {<<CanonicalMIMEHeaderKey(p[1]), p[2],
                        Cardinality({q \in headers.kv :
                            /\ CanonicalMIMEHeaderKey(q[1]) = CanonicalMIMEHeaderKey(p[1])
                            /\ q[2] = p[2]})>> : p \in headers.kv},
     headers |-> headers]

\* A body is a sequence of top-level JSON texts, each one of:
\*   "obj"   a well-formed object with declared fields only
\*   "unk"   a well-formed object with an undeclared field
\*   "trunc" an object cut off before its closing brace
\*   "syn"   a text with a syntax error
\*   "typ"   a well-formed value of the wrong JSON type
Tokens == {"obj", "unk", "trunc", "syn", "typ"}
Docs == UNION {[1..n -> Tokens] : n \in 0..MaxDocLen}

\* The destination handed to the decoder: a non-nil pointer, a nil pointer,
\* a value that is no pointer.
Dsts == {"ptr", "nilptr", "nonptr"}

\* panic(err): the call does not return.
Panic == [kind |-> "panic", res |-> 0]

\* Bodies the modelled server sends.
ServerDocs == {<<>>, <<"obj">>, <<"trunc">>, <<"obj", "obj">>}

\* dec.Decode(dst) reads one whole value from the input before it looks at
\* dst: end-of-input and malformed text are reported first, an invalid dst
\* (InvalidUnmarshalError, which ReadJSON turns into a panic) only once a
\* value has been read.  The second Decode must meet end-of-input.
ReadJSONSingleDecode(doc, dst) ==
    IF doc = <<>> THEN Err("empty body")
    ELSE CASE Head(doc) = "syn" -> Err("badly-formed JSON")
           [] Head(doc) = "trunc" -> Err("badly-formed JSON")
           [] dst # "ptr" -> Panic
           [] Head(doc) = "typ" -> Err("incorrect JSON type")
           [] Head(doc) = "unk" -> Err("unknown key")
           [] OTHER -> NoErr

ReadJSON(doc, dst) ==
    IF doc = <<>> THEN Err("empty body")
    ELSE CASE Head(doc) = "syn" -> Err("badly-formed JSON")
           [] Head(doc) = "trunc" -> Err("badly-formed JSON")
           [] dst # "ptr" -> Panic
           [] Head(doc) = "typ" -> Err("incorrect JSON type")
           [] Head(doc) = "unk" -> Err("unknown key")
           [] OTHER -> IF Len(doc) = 1 THEN NoErr ELSE Err("single JSON value")

\* ------------------------------------------------------------ call records
NoEnv == [Body |-> "none", Response |-> 0]
newResponse(body, res) == [Body |-> body, Response |-> res]

NoRet == [res |-> 0, timer |-> FALSE, err |-> NoErr]

IdleCall ==
    [pc |-> "idle",        \* idle, dispatch, CopyN, returned, discarded
     timer |-> "none",     \* none, armed, fired
     tRem |-> 0,           \* ticks until an armed timer fires
     ctx |-> "unset",      \* derived context: unset, live, byTimer, byParent
     lat |-> 0,            \* ticks until the transport has an outcome
     lat0 |-> 0,           \* the time the transport needs in all, from dispatch
     hasRes |-> FALSE,     \* client.Do returned a response
     status |-> 0,         \* its status code
     chunks |-> 0,         \* full 256-byte chunks still unread
     wait |-> 0,           \* ticks until the next chunk (or end-of-input) arrives
     bodyRead |-> FALSE,   \* a read has been issued on the response body
     closed |-> 0,         \* Close calls on the response body
     readErr |-> NoErr,    \* the error the body read failed with
     bodyAttached |-> FALSE,
     header |-> NoHeader,  \* the header of the outbound request
     sent |-> FALSE,       \* client.Do has been called
     trace |-> <<>>,       \* the steps of Fetch completed so far, with their errors
     doDone |-> FALSE,     \* do has returned
     doRet |-> NoRet,      \* what do returned
     rd |-> "none",        \* io.ReadAll on the error's body: none, reading, eof, failed
     rwait |-> 0,          \* ticks until the rest of that body has arrived
     text |-> "unknown",   \* the body text, once read to its end
     who |-> "none",       \* the function whose io.ReadAll read the body first
     descs |-> <<>>,       \* what the calls of GetErrorProperties returned, in order
     strs |-> <<>>,        \* what the calls of Error and UnmarshalError gave, in order
     env |-> NoEnv,        \* what Fetch returned
     err |-> NoErr]

Dec(n) == IF n > 0 THEN n - 1 ELSE 0

\* The steps of Fetch, in the order of its text: toBytesReader, httpCall up
\* to the return of client.Do, statusCodeValidator, readBody, ReadJSON.
Steps == <<"serialize", "dispatch", "status", "read", "decode">>
StepRank(s) == CHOOSE i \in 1..Len(Steps) : Steps[i] = s
Step(s, e) == [step |-> s, err |-> e]


\* ------------------------------------------------------------------- do
\* The four ways do returns (response, timer, error).
doNewRequestError == [res |-> 0, timer |-> FALSE, err |-> Err("NewRequest")]

doInvalidStatusDetached(k) ==
    [res |-> 0, timer |-> TRUE, err |-> Err("ErrInvalidHttpStatus")]

doInvalidStatusBoth(k) == [res |-> k, timer |-> TRUE, err |-> ErrInvalidHttpStatus(k)]

doInvalidStatus(k) == [res |-> 0, timer |-> TRUE, err |-> ErrInvalidHttpStatus(k)]

doValidStatus(k) == [res |-> k, timer |-> TRUE, err |-> NoErr]

doDispatchErrorUnmapped(cause) == [res |-> 0, timer |-> FALSE, err |-> Err(cause)]

\* cause: the error client.Do failed with, "context.Canceled" or another one.
doDispatchError(cause) ==
    IF cause = "context.Canceled"
    THEN [res |-> 0, timer |-> FALSE, err |-> ErrTimeOut]
    ELSE [res |-> 0, timer |-> FALSE, err |-> Err(cause)]

\* context.WithCancel(ctx): born canceled when the parent already is.
WithCancel(p) == IF p = "live" THEN "live" ELSE "byParent"

\* cancel(): the first cancellation sticks, later ones change nothing.
cancel(c, by) == IF c.ctx = "live" THEN [c EXCEPT !.ctx = by] ELSE c

Canceled(c) == c.ctx \in {"byTimer", "byParent"}

\* ---------------------------------------------------------------- Fetch
\* Fetch up to the point where client.Do is in flight: toBytesReader, then
\* httpCall/do creating the derived context, the timer and the request.
\* lat is the time the transport will take to produce its outcome.
FetchBegin(c, lat) ==
    LET r == toBytesReader(input.req)
        c0 == [c EXCEPT !.trace = <<Step("serialize", r.err)>>]
    IN
    IF r.err # NoErr /\ ~ErrorsIs(r.err, ErrNilValue)
    THEN [c0 EXCEPT !.pc = "returned", !.err = r.err]
    ELSE LET c1 == [c0 EXCEPT !.ctx = WithCancel(parent),
                              !.timer = "armed",
                              !.tRem = input.deadline,
                              !.bodyAttached = (r.reader # "nil")]
         IN IF ~input.endpointOK
            THEN [c1 EXCEPT !.pc = "returned", !.doDone = TRUE,
                            !.doRet = doNewRequestError,
                            !.err = doNewRequestError.err,
                            !.trace = Append(@, Step("dispatch", doNewRequestError.err))]
            ELSE [c1 EXCEPT !.pc = "dispatch", !.sent = TRUE,
                            !.header = AddHeaders(input.headers).Header,
                            !.lat = lat, !.lat0 = lat]

\* The caller's arguments once Fetch has got as far as client.Do: the
\* request value after json.Marshal read it, the header map after do ranged
\* over it, the client as it was passed.
FetchArguments(in) ==
    LET r == toBytesReader(in.req) IN
    IF (r.err # NoErr /\ ~ErrorsIs(r.err, ErrNilValue)) \/ ~in.endpointOK
    THEN in
    ELSE [in EXCEPT !.headers = AddHeaders(@).headers]

\* readBody once the loop has ended: the deferred Close runs and its result
\* replaces the error being returned (err is the named result).
\* readErr: the error of the failed chunk read, NoErr after end-of-input.
readBody(readErr, closeErr) ==
    [data |-> (readErr = NoErr), err |-> closeErr]

\* The first failure inside readBody: of the read, else of Close.
readBodyFailure(readErr, closeErr) == IF readErr # NoErr THEN readErr ELSE closeErr

\* Fetch after readBody returned: decode, build the envelope.
\* doc is the body as sent by the server; data tells whether it was read.
FetchFinishEnvelopeWithError(c0, k, rb, doc) ==
    LET c == [c0 EXCEPT !.chunks = 0, !.wait = 0] IN
    IF rb.err # NoErr
    THEN [c EXCEPT !.pc = "returned", !.err = rb.err]
    ELSE LET e == ReadJSON(IF rb.data THEN doc ELSE <<>>, "ptr")
             c1 == [c EXCEPT !.trace = Append(@, Step("decode", e))]
         IN [c1 EXCEPT !.pc = "returned", !.err = e,
                       !.env = newResponse("decoded", k)]

FetchFinishNilBody(c0, k, rb, doc) ==
    LET c == [c0 EXCEPT !.chunks = 0, !.wait = 0] IN
    IF rb.err # NoErr
    THEN [c EXCEPT !.pc = "returned", !.err = rb.err]
    ELSE LET e == ReadJSON(IF rb.data THEN doc ELSE <<>>, "ptr")
             c1 == [c EXCEPT !.trace = Append(@, Step("decode", e))]
         IN
         IF e # NoErr
         THEN [c1 EXCEPT !.pc = "returned", !.err = e]
         ELSE [c1 EXCEPT !.pc = "returned", !.env = newResponse("nil", k)]

FetchFinish(c0, k, rb, doc) ==
    LET c == [c0 EXCEPT !.chunks = 0, !.wait = 0] IN
    IF rb.err # NoErr
    THEN [c EXCEPT !.pc = "returned", !.err = rb.err]
    ELSE LET e == ReadJSON(IF rb.data THEN doc ELSE <<>>, "ptr")
             c1 == [c EXCEPT !.trace = Append(@, Step("decode", e))]
         IN
         IF e # NoErr
         THEN [c1 EXCEPT !.pc = "returned", !.err = e]
         ELSE [c1 EXCEPT !.pc = "returned", !.env = newResponse("decoded", k)]

\* The caller invokes Fetch directly (call 1).
CallFetch ==
    /\ input.mode = "Fetch"
    /\ nfetch = 0
    /\ \E lat \in 0..MaxLatency :
         calls' = [calls EXCEPT ![1] = FetchBegin(@, lat)]
    /\ nfetch' = 1
    /\ input' = FetchArguments(input)
    /\ UNCHANGED <<parent, rx, prod, consumer, code, verdict, arg, out>>

\* client.Do fails because the request's context is done.
DoAbort(k) ==
    /\ calls[k].pc = "dispatch"
    /\ Canceled(calls[k])
    /\ LET r == doDispatchError("context.Canceled") IN
       calls' = [calls EXCEPT ![k] =
                    [@ EXCEPT !.pc = "returned", !.doDone = TRUE, !.lat = 0,
                              !.doRet = r, !.err = r.err,
                              !.trace = Append(@, Step("dispatch", r.err))]]
    /\ UNCHANGED <<input, parent, nfetch, code, verdict, rx, prod, consumer, arg, out>>

\* client.Do fails for a reason of the transport (refused, reset, ...).
DoTransportError(k) ==
    /\ calls[k].pc = "dispatch"
    /\ ~Canceled(calls[k])
    /\ calls[k].lat = 0
    /\ LET r == doDispatchError("transport") IN
       calls' = [calls EXCEPT ![k] =
                    [@ EXCEPT !.pc = "returned", !.doDone = TRUE,
                              !.doRet = r, !.err = r.err,
                              !.trace = Append(@, Step("dispatch", r.err))]]
    /\ UNCHANGED <<input, parent, nfetch, code, verdict, rx, prod, consumer, arg, out>>

\* client.Do returns a response with status st; do validates it and Fetch
\* either returns or enters readBody (first timer.Reset, first CopyN).
DoRespond(k, st) ==
    /\ calls[k].pc = "dispatch"
    /\ ~Canceled(calls[k])
    /\ calls[k].lat = 0
    /\ \E n \in 0..MaxChunks, w \in 0..MaxChunkWait :
         LET c0 == [calls[k] EXCEPT !.hasRes = TRUE, !.status = st, !.doDone = TRUE,
                                    !.trace = Append(@, Step("dispatch", NoErr))]
             c == [c0 EXCEPT !.trace = Append(@, Step("status",
                                IF statusCodeValidator(input.validator, st)
                                THEN doInvalidStatus(k).err ELSE NoErr))]
         IN calls' = [calls EXCEPT ![k] =
              IF statusCodeValidator(input.validator, st)
              THEN [c EXCEPT !.pc = "returned",
                             !.doRet = doInvalidStatus(k),
                             !.err = doInvalidStatus(k).err]
              ELSE IF st = StatusNoContent
              THEN [c EXCEPT !.pc = "returned",
                             !.doRet = doValidStatus(k),
                             !.env = newResponse("nil", k)]
              ELSE [c EXCEPT !.pc = "CopyN",
                             !.doRet = doValidStatus(k),
                             !.timer = "armed", !.tRem = ReadReset,
                             !.chunks = n, !.wait = w, !.bodyRead = TRUE]]
    /\ UNCHANGED <<input, parent, nfetch, code, verdict, rx, prod, consumer, arg, out>>

\* io.CopyN copies a full chunk: the loop re-arms the timer and reads on.
CopyNChunk(k) ==
    /\ calls[k].pc = "CopyN"
    /\ calls[k].wait = 0
    /\ calls[k].chunks > 0
    /\ \E w \in 0..MaxChunkWait :
         calls' = [calls EXCEPT ![k] =
                      [@ EXCEPT !.chunks = @ - 1, !.wait = w,
                                !.timer = "armed", !.tRem = ReadReset]]
    /\ UNCHANGED <<input, parent, nfetch, code, verdict, rx, prod, consumer, arg, out>>

\* io.CopyN meets end-of-input: readBody closes the body and returns the
\* data, Fetch decodes it and returns.
CopyNEOF(k) ==
    /\ calls[k].pc = "CopyN"
    /\ calls[k].wait = 0
    /\ calls[k].chunks = 0
    /\ \E doc \in ServerDocs, closeErr \in {NoErr, Err("close")} :
         calls' = [calls EXCEPT ![k] =
                      FetchFinish([@ EXCEPT !.closed = @ + 1,
                                            !.trace = Append(@, Step("read",
                                                readBodyFailure(NoErr, closeErr)))],
                                  k, readBody(NoErr, closeErr), doc)]
    /\ UNCHANGED <<input, parent, nfetch, code, verdict, rx, prod, consumer, arg, out>>

\* io.CopyN fails: the context was canceled while the read was in flight,
\* or the connection broke.
CopyNError(k) ==
    /\ calls[k].pc = "CopyN"
    /\ \E readErr \in {Err("context.Canceled"), Err("transport")},
          closeErr \in {NoErr, Err("close")} :
         /\ readErr.kind = "context.Canceled" => Canceled(calls[k])
         /\ readErr.kind = "transport" => ~Canceled(calls[k]) /\ calls[k].wait = 0
         /\ calls' = [calls EXCEPT ![k] =
                         FetchFinish([@ EXCEPT !.closed = @ + 1, !.readErr = readErr,
                                               !.trace = Append(@, Step("read",
                                                   readBodyFailure(readErr, closeErr)))],
                                     k, readBody(readErr, closeErr), <<>>)]
    /\ UNCHANGED <<input, parent, nfetch, code, verdict, rx, prod, consumer, arg, out>>

\* ------------------------------------------------------ error description
ZeroErrProps == [StatusCode |-> 0, Status |-> "", ErrMessage |-> ""]

NewErrParamsNoMessage(statusCode, status, errMessage) ==
    [StatusCode |-> statusCode, Status |-> status, ErrMessage |-> ""]

NewErrParams(statusCode, status, errMessage) ==
    [StatusCode |-> statusCode, Status |-> status, ErrMessage |-> errMessage]

\* res.Status, the status line text that goes with the code ("404 Not Found").
ResStatus(st) == ToString(st)

\* Bodies of error responses: none, valid UTF-8 text, bytes that are not.
BodyTexts == {"", "text", "bytes"}

\* json.Marshal writes a string coerced to valid UTF-8, invalid bytes replaced.
CoerceUTF8(t) == IF t = "bytes" THEN "replaced" ELSE t

\* A string as ReadJSON sees it (doc) and the ErrProps it spells (val).
EmptyString == [doc |-> <<>>, val |-> ZeroErrProps]
Marshal(p) == [doc |-> <<"obj">>, val |-> [p EXCEPT !.ErrMessage = CoerceUTF8(@)]]

\* io.ReadAll on a body: everything up to end-of-input, or the error; on a
\* body already read to its end, nothing and no error.
ReadAll(data, err) == [data |-> IF err = NoErr THEN data ELSE "", err |-> err]

\* ErrInvalidHttpStatus.Error(), r being what io.ReadAll(e.Res.Body) gave.
ErrorString(c, r) ==
    IF r.err # NoErr THEN EmptyString
    ELSE Marshal(NewErrParams(c.status, ResStatus(c.status), r.data))

UnmarshalError(c, r) ==
    LET str == ErrorString(c, r)
        e == ReadJSON(str.doc, "ptr")
    IN IF e # NoErr THEN [props |-> ZeroErrProps, err |-> e]
       ELSE [props |-> str.val, err |-> NoErr]

\* GetErrorProperties(err) for the error of call c.
GetErrorProperties(c, r) ==
    IF c.err.kind # "ErrInvalidHttpStatus" THEN ZeroErrProps
    ELSE LET u == UnmarshalError(c, r) IN
         IF u.err # NoErr THEN ZeroErrProps ELSE u.props

\* io.ReadAll on a body a read has already ended on: nothing more after
\* end-of-input, the same error again after a failure.
ReadAgainRewound(c) ==
    IF c.rd = "failed" THEN ReadAll("", c.readErr) ELSE ReadAll(c.text, NoErr)

ReadAgain(c) ==
    IF c.rd = "failed" THEN ReadAll("", c.readErr) ELSE ReadAll("", NoErr)

\* The three functions that read the body of the error's response: Error()
\* itself (every logging of the error and every fmt.Errorf that wraps it
\* calls it), UnmarshalError() and GetErrorProperties().
Describers == {"Error", "UnmarshalError", "GetErrorProperties"}

\* What function fn makes of r, the outcome of its io.ReadAll: the ErrProps
\* its result spells (Error), holds (UnmarshalError) or is.
Described(fn, c, r) ==
    CASE fn = "Error" -> ErrorString(c, r).val
      [] fn = "UnmarshalError" -> UnmarshalError(c, r).props
      [] OTHER -> GetErrorProperties(c, r)

\* fn returns: its result joins those of its kind.
Deliver(c, fn, r) ==
    IF fn = "GetErrorProperties"
    THEN [c EXCEPT !.descs = Append(@, Described(fn, c, r))]
    ELSE [c EXCEPT !.strs = Append(@, [fn |-> fn, props |-> Described(fn, c, r)])]

\* fn is called on the error of call c.  For an ErrInvalidHttpStatus the
\* first call of any of the three starts reading the response body and
\* blocks in io.ReadAll for w ticks; a later call finds the body at its end
\* or failed.
Describe(c, fn, w) ==
    IF c.err.kind = "ErrInvalidHttpStatus" /\ c.rd = "none"
    THEN [c EXCEPT !.rd = "reading", !.rwait = w, !.who = fn]
    ELSE Deliver(c, fn, ReadAgain(c))

CanDescribe(c) ==
    /\ c.pc = "returned"
    /\ c.err # NoErr
    /\ c.rd # "reading"
    /\ Len(c.descs) + Len(c.strs) < MaxDescribe

\* The caller passes the error Fetch returned to GetErrorProperties.
CallGetErrorProperties(k) ==
    /\ CanDescribe(calls[k])
    /\ \E w \in 0..MaxChunkWait :
         calls' = [calls EXCEPT ![k] = Describe(@, "GetErrorProperties", w)]
    /\ UNCHANGED <<input, parent, nfetch, code, verdict, rx, prod, consumer, arg, out>>

\* The caller asks the ErrInvalidHttpStatus Fetch returned for its text:
\* err.Error(), a log line, a wrapping fmt.Errorf.
CallError(k) ==
    /\ CanDescribe(calls[k])
    /\ calls[k].err.kind = "ErrInvalidHttpStatus"
    /\ \E w \in 0..MaxChunkWait :
         calls' = [calls EXCEPT ![k] = Describe(@, "Error", w)]
    /\ UNCHANGED <<input, parent, nfetch, code, verdict, rx, prod, consumer, arg, out>>

\* The caller calls UnmarshalError on the ErrInvalidHttpStatus Fetch returned.
CallUnmarshalError(k) ==
    /\ CanDescribe(calls[k])
    /\ calls[k].err.kind = "ErrInvalidHttpStatus"
    /\ \E w \in 0..MaxChunkWait :
         calls' = [calls EXCEPT ![k] = Describe(@, "UnmarshalError", w)]
    /\ UNCHANGED <<input, parent, nfetch, code, verdict, rx, prod, consumer, arg, out>>

\* io.ReadAll meets the end of the body.
ReadAllEOF(k) ==
    /\ calls[k].rd = "reading"
    /\ calls[k].rwait = 0
    /\ \E t \in BodyTexts :
         calls' = [calls EXCEPT ![k] =
            Deliver([@ EXCEPT !.rd = "eof", !.text = t], @.who, ReadAll(t, NoErr))]
    /\ UNCHANGED <<input, parent, nfetch, code, verdict, rx, prod, consumer, arg, out>>

\* io.ReadAll fails: the call's context is canceled, or the connection broke.
ReadAllError(k) ==
    /\ calls[k].rd = "reading"
    /\ \E readErr \in {Err("context.Canceled"), Err("transport")} :
         /\ readErr.kind = "context.Canceled" => Canceled(calls[k])
         /\ readErr.kind = "transport" => ~Canceled(calls[k]) /\ calls[k].rwait = 0
         /\ calls' = [calls EXCEPT ![k] =
               Deliver([@ EXCEPT !.rd = "failed", !.rwait = 0, !.readErr = readErr],
                       @.who, ReadAll("", readErr))]
    /\ UNCHANGED <<input, parent, nfetch, code, verdict, rx, prod, consumer, arg, out>>

\* --------------------------------------------------------------- FetchRx
\* rxgo items: Error(err) carries E, Of(v) carries V.
\* The dynamic value in an item's V:
\*   "nil"      no value (a nil interface)
\*   "ptr"      a non-nil *T, env being what it points to
\*   "nilptr"   a nil pointer of type *T
\*   "errval"   a non-pointer value implementing error (ErrInvalidHttpStatus)
\*   "errptr"   a pointer of another type implementing error (errors.New)
\*   "value"    a non-pointer value that is no error
\*   "otherptr" a pointer of another type that is no error
NilV == [tag |-> "nil", env |-> NoEnv, err |-> NoErr]
NilPtr == [tag |-> "nilptr", env |-> NoEnv, err |-> NoErr]
Ptr(env) == [tag |-> "ptr", env |-> env, err |-> NoErr]
ErrV(tag, e) == [tag |-> tag, env |-> NoEnv, err |-> e]
Plain(tag) == [tag |-> tag, env |-> NoEnv, err |-> NoErr]

Error(e) == [V |-> NilV, E |-> e]
Of(c) == [V |-> IF c.env = NoEnv THEN NilPtr ELSE Ptr(c.env), E |-> NoErr]
NoItem == [V |-> NilV, E |-> NoErr]

ErrNonPointerOrWrongCasting == Err("ErrNonPointerOrWrongCasting")
ErrEmptyItem == Err("ErrEmptyItem")

\* To[T]: the type switch on item.V, in the order of its cases.
ToErrorFirst(item) ==
    CASE item.E # NoErr -> [itemPointer |-> NilPtr, err |-> item.E]
      [] item.V.tag \in {"ptr", "nilptr"} -> [itemPointer |-> item.V, err |-> NoErr]
      [] item.V.tag = "nil" -> [itemPointer |-> NilPtr, err |-> ErrEmptyItem]
      [] item.V.tag \in {"errval", "errptr"} -> [itemPointer |-> NilPtr, err |-> item.V.err]
      [] OTHER -> [itemPointer |-> NilPtr, err |-> ErrNonPointerOrWrongCasting]

ToErrorIsWrongCasting(item) ==
    CASE item.V.tag \in {"ptr", "nilptr"} -> [itemPointer |-> item.V, err |-> NoErr]
      [] item.V.tag = "nil" ->
           [itemPointer |-> NilPtr,
            err |-> IF item.E # NoErr THEN item.E ELSE ErrEmptyItem]
      [] OTHER -> [itemPointer |-> NilPtr, err |-> ErrNonPointerOrWrongCasting]

To(item) ==
    CASE item.V.tag \in {"ptr", "nilptr"} -> [itemPointer |-> item.V, err |-> NoErr]
      [] item.V.tag = "nil" ->
           [itemPointer |-> NilPtr,
            err |-> IF item.E # NoErr THEN item.E ELSE ErrEmptyItem]
      [] item.V.tag \in {"errval", "errptr"} -> [itemPointer |-> NilPtr, err |-> item.V.err]
      [] OTHER -> [itemPointer |-> NilPtr, err |-> ErrNonPointerOrWrongCasting]

RxIdle == [pc |-> "unborn",   \* unborn, op, recv, fwd, sleep, sendErr, closed
           attempt |-> 0,     \* the attempt whose channel f observes
           numTries |-> 0,    \* backOffTries.numTries
           bRem |-> 0,        \* ticks left of the back-off sleep
           stop |-> "none",   \* why backoff.Retry gave up: none, cap, elapsed, other
           item |-> NoItem]   \* the item being sent on the observable's channel

\* backoff.WithMaxRetries(b, max).NextBackOff(): Stop when the retries are
\* used up, else whatever the exponential back-off says (it stops once its
\* MaxElapsedTime has passed: budgetLeft is FALSE then).
NextBackOffOffByOne(maxTries, numTries, budgetLeft) ==
    IF maxTries = 0 THEN "Stop"
    ELSE IF maxTries < numTries THEN "Stop"
    ELSE IF budgetLeft THEN "Wait" ELSE "Stop"

NextBackOffZeroUnlimited(maxTries, numTries, budgetLeft) ==
    IF maxTries > 0 /\ maxTries <= numTries THEN "Stop"
    ELSE IF budgetLeft THEN "Wait" ELSE "Stop"

NextBackOff(maxTries, numTries, budgetLeft) ==
    IF maxTries = 0 THEN "Stop"
    ELSE IF maxTries <= numTries THEN "Stop"
    ELSE IF budgetLeft THEN "Wait" ELSE "Stop"

\* backoff.Retry after the operation returned err: Fetch's errors are never
\* a *backoff.PermanentError, so the back-off policy alone decides.
RetryStepMarshalPermanent(err, maxTries, numTries, budgetLeft) ==
    IF ErrorsIs(err, ErrMarshallValue) THEN "Stop"
    ELSE NextBackOff(maxTries, numTries, budgetLeft)

RetryStep(err, maxTries, numTries, budgetLeft) ==
    NextBackOff(maxTries, numTries, budgetLeft)

\* What made the policy stop: the retry cap, else the elapsed-time limit of
\* the exponential back-off (MaxElapsedTime, 15 minutes by default).
StopReason(maxTries, numTries, budgetLeft) ==
    IF maxTries = 0 \/ maxTries <= numTries THEN "cap"
    ELSE IF ~budgetLeft THEN "elapsed" ELSE "other"

\* FetchRx: rxgo.Defer(...).BackOffRetry(...) builds the observable and
\* starts the retry goroutine.
CallFetchRx ==
    /\ input.mode = "FetchRx"
    /\ rx.pc = "unborn"
    /\ rx' = [rx EXCEPT !.pc = "op"]
    /\ UNCHANGED <<input, calls, parent, nfetch, prod, consumer, code, verdict, arg, out>>

\* backoff.Retry is about to call the operation: at its start and after each
\* back-off sleep, never while an operation is still running.
RetryReadyEager == rx.pc \in {"op", "recv"}

RetryReady == rx.pc = "op"

\* backoff.Retry calls the operation: f observes the deferred iterable, which
\* starts a producer goroutine on a fresh channel; the producer calls Fetch.
RetryObserve ==
    /\ RetryReady
    /\ nfetch + 1 \in CallIds
    /\ \E lat \in 0..MaxLatency :
         calls' = [calls EXCEPT ![nfetch + 1] = FetchBegin(@, lat)]
    /\ nfetch' = nfetch + 1
    /\ prod' = [prod EXCEPT ![nfetch + 1] = "Fetch"]
    /\ rx' = [rx EXCEPT !.pc = "recv", !.attempt = nfetch + 1]
    /\ input' = FetchArguments(input)
    /\ UNCHANGED <<parent, consumer, code, verdict, arg, out>>

\* case i, ok := <-observe: f is receiving on attempt k's channel and the
\* producer, its Fetch having returned, is sending.
ObserveItemReady(k) ==
    /\ rx.pc = "recv"
    /\ rx.attempt = k
    /\ prod[k] = "Fetch"
    /\ calls[k].pc = "returned"

\* backoff.Retry drops the error of an attempt it retries: nothing refers to
\* that call's results any more, only its timer and context live on.
Discard(c) ==
    [IdleCall EXCEPT !.pc = "discarded", !.timer = c.timer, !.tRem = c.tRem,
                     !.ctx = c.ctx]

\* The producer sends Error(err); f returns it and backoff.Retry decides
\* between another attempt after a sleep and giving up.  The producer goes
\* on to send Of(res) on the channel nobody receives from any more.
ProducerSendErrorOfFirstAttempt(k) ==
    /\ ObserveItemReady(k)
    /\ calls[k].err # NoErr
    /\ prod' = [prod EXCEPT ![k] = "sendOf"]
    /\ \E budgetLeft \in BOOLEAN, b \in 0..MaxBackoff :
         IF RetryStep(calls[k].err, input.retries, rx.numTries, budgetLeft) = "Stop"
         THEN /\ rx' = [rx EXCEPT !.pc = "sendErr", !.item = Error(IF calls[k].err.res = 0 THEN calls[k].err
                                                 ELSE [calls[k].err EXCEPT !.res = 1]),
                                  !.stop = StopReason(input.retries, rx.numTries,
                                                      budgetLeft)]
              /\ calls' = calls
         ELSE /\ rx' = [rx EXCEPT !.pc = IF b = 0 THEN "op" ELSE "sleep",
                                  !.bRem = b, !.numTries = @ + 1]
              /\ calls' = [calls EXCEPT ![k] = Discard(@)]
    /\ UNCHANGED <<input, parent, nfetch, consumer, code, verdict, arg, out>>

ProducerSendErrorThenOf(k) ==
    /\ ObserveItemReady(k)
    /\ calls[k].err # NoErr
    /\ prod' = [prod EXCEPT ![k] = "sendOf"]
    /\ \E budgetLeft \in BOOLEAN, b \in 0..MaxBackoff :
         IF RetryStep(calls[k].err, input.retries, rx.numTries, budgetLeft) = "Stop"
         THEN /\ rx' = [rx EXCEPT !.pc = "sendErr", !.item = Of(calls[k]),
                                  !.stop = StopReason(input.retries, rx.numTries,
                                                      budgetLeft)]
              /\ calls' = calls
         ELSE /\ rx' = [rx EXCEPT !.pc = IF b = 0 THEN "op" ELSE "sleep",
                                  !.bRem = b, !.numTries = @ + 1]
              /\ calls' = [calls EXCEPT ![k] = Discard(@)]
    /\ UNCHANGED <<input, parent, nfetch, consumer, code, verdict, arg, out>>

ProducerSendError(k) ==
    /\ ObserveItemReady(k)
    /\ calls[k].err # NoErr
    /\ prod' = [prod EXCEPT ![k] = "sendOf"]
    /\ \E budgetLeft \in BOOLEAN, b \in 0..MaxBackoff :
         IF RetryStep(calls[k].err, input.retries, rx.numTries, budgetLeft) = "Stop"
         THEN /\ rx' = [rx EXCEPT !.pc = "sendErr", !.item = Error(calls[k].err),
                                  !.stop = StopReason(input.retries, rx.numTries,
                                                      budgetLeft)]
              /\ calls' = calls
         ELSE /\ rx' = [rx EXCEPT !.pc = IF b = 0 THEN "op" ELSE "sleep",
                                  !.bRem = b, !.numTries = @ + 1]
              /\ calls' = [calls EXCEPT ![k] = Discard(@)]
    /\ UNCHANGED <<input, parent, nfetch, consumer, code, verdict, arg, out>>

\* The producer sends Of(res) and returns; f passes the item on.
ProducerSendOf(k) ==
    /\ ObserveItemReady(k)
    /\ calls[k].err = NoErr
    /\ prod' = [prod EXCEPT ![k] = "returned"]
    /\ rx' = [rx EXCEPT !.pc = "fwd", !.item = Of(calls[k])]
    /\ UNCHANGED <<input, calls, parent, nfetch, consumer, code, verdict, arg, out>>

\* deferIterable's closer: all producers are done, close the channel.
InnerClose(k) ==
    /\ prod[k] = "returned"
    /\ prod' = [prod EXCEPT ![k] = "closed"]
    /\ UNCHANGED <<input, calls, parent, nfetch, rx, consumer, code, verdict, arg, out>>

\* f finds the producer's channel closed and returns nil: backoff.Retry
\* returns nil and the observable's channel is closed.
RetryRecvClosedRetries ==
    /\ rx.pc = "recv"
    /\ prod[rx.attempt] = "closed"
    /\ rx' = [rx EXCEPT !.pc = "op"]
    /\ UNCHANGED <<input, calls, parent, nfetch, prod, consumer, code, verdict, arg, out>>

RetryRecvClosed ==
    /\ rx.pc = "recv"
    /\ prod[rx.attempt] = "closed"
    /\ rx' = [rx EXCEPT !.pc = "closed"]
    /\ UNCHANGED <<input, calls, parent, nfetch, prod, consumer, code, verdict, arg, out>>

\* The back-off sleep is over.
RetryWake ==
    /\ rx.pc = "sleep"
    /\ rx.bRem = 0
    /\ rx' = [rx EXCEPT !.pc = "op"]
    /\ UNCHANGED <<input, calls, parent, nfetch, prod, consumer, code, verdict, arg, out>>

\* The consumer calls Observe() on the observable.
Observe ==
    /\ rx.pc # "unborn"
    /\ ~consumer.subscribed
    /\ consumer' = [consumer EXCEPT !.subscribed = TRUE]
    /\ UNCHANGED <<input, calls, parent, nfetch, rx, prod, code, verdict, arg, out>>

\* The consumer receives the item the retry goroutine is sending.
Receive ==
    /\ consumer.subscribed
    /\ rx.pc \in {"fwd", "sendErr"}
    /\ consumer' = [consumer EXCEPT !.items = Append(@, rx.item)]
    /\ rx' = [rx EXCEPT !.pc = IF rx.pc = "fwd" THEN "recv" ELSE "closed",
                        !.item = NoItem]
    /\ UNCHANGED <<input, calls, parent, nfetch, prod, code, verdict, arg, out>>

\* The consumer finds the observable's channel closed.
ReceiveClosed ==
    /\ consumer.subscribed
    /\ ~consumer.sawClose
    /\ rx.pc = "closed"
    /\ consumer' = [consumer EXCEPT !.sawClose = TRUE]
    /\ UNCHANGED <<input, calls, parent, nfetch, rx, prod, code, verdict, arg, out>>

\* ----------------------------------------------------- timers and contexts
\* The function given to time.AfterFunc runs: cancel().
TimerFireLaterAttempts(k) ==
    /\ calls[k].timer = "armed"
    /\ calls[k].tRem = 0
    /\ calls' = [j \in CallIds |->
                    IF j = k THEN cancel([calls[j] EXCEPT !.timer = "fired"], "byTimer")
                    ELSE IF j > k THEN cancel(calls[j], "byTimer")
                    ELSE calls[j]]
    /\ UNCHANGED <<input, parent, nfetch, code, verdict, rx, prod, consumer, arg, out>>

TimerFireSiblings(k) ==
    /\ calls[k].timer = "armed"
    /\ calls[k].tRem = 0
    /\ calls' = [j \in CallIds |->
                    IF j = k THEN cancel([calls[j] EXCEPT !.timer = "fired"], "byTimer")
                    ELSE cancel(calls[j], "byTimer")]
    /\ UNCHANGED <<input, parent, nfetch, code, verdict, rx, prod, consumer, arg, out>>

TimerFire(k) ==
    /\ calls[k].timer = "armed"
    /\ calls[k].tRem = 0
    /\ calls' = [calls EXCEPT ![k] = cancel([@ EXCEPT !.timer = "fired"], "byTimer")]
    /\ UNCHANGED <<input, parent, nfetch, code, verdict, rx, prod, consumer, arg, out>>

\* The caller cancels the context it passed in.
CancelParent ==
    /\ parent = "live"
    /\ input.mode # "Validator"
    /\ parent' = "canceled"
    /\ calls' = [k \in CallIds |-> cancel(calls[k], "byParent")]
    /\ UNCHANGED <<input, nfetch, code, verdict, rx, prod, consumer, arg, out>>

TimerDue(c) == c.timer = "armed" /\ c.tRem = 0
OutcomeDue(c) == c.pc = "dispatch" /\ c.lat = 0 /\ ~Canceled(c)
ChunkDue(c) == c.pc = "CopyN" /\ c.wait = 0 /\ ~Canceled(c)
ReadAllDue(c) == c.rd = "reading" /\ c.rwait = 0 /\ ~Canceled(c)
Counting(c) ==
    \/ c.timer = "armed" /\ c.tRem > 0
    \/ c.pc = "dispatch" /\ c.lat > 0
    \/ c.pc = "CopyN" /\ c.wait > 0
    \/ c.rd = "reading" /\ c.rwait > 0

\* One tick of time passes; nothing that is due is skipped.
Tick ==
    /\ \A k \in CallIds : ~TimerDue(calls[k]) /\ ~OutcomeDue(calls[k])
                           /\ ~ChunkDue(calls[k]) /\ ~ReadAllDue(calls[k])
    /\ ~(rx.pc = "sleep" /\ rx.bRem = 0)
    /\ (\E k \in CallIds : Counting(calls[k])) \/ rx.pc = "sleep"
    /\ calls' = [k \in CallIds |->
                    [calls[k] EXCEPT !.tRem = Dec(@), !.lat = Dec(@), !.wait = Dec(@),
                                     !.rwait = Dec(@)]]
    /\ rx' = [rx EXCEPT !.bRem = Dec(@)]
    /\ UNCHANGED <<input, parent, nfetch, code, verdict, prod, consumer, arg, out>>

\* ------------------------------------------------------- specifications
\* The result slot of a pure function before and after its call.
Unset == [done |-> FALSE, val |-> "none"]
Returns(v) == [done |-> TRUE, val |-> v]

FetchInputs ==
    [mode : {"Fetch"}, method : Methods, req : ReqKinds, deadline : 1..MaxDeadline,
     validator : Validators, endpointOK : BOOLEAN, retries : {0},
     headers : {CallerHeaders}, client : {HTTPClient}]

\* Under retry the request is never nil: a nil request differs from a
\* serializable one only in the body attached to the outbound request.
FetchRxInputs ==
    [mode : {"FetchRx"}, method : {"GET"}, req : ReqKinds \ {"nil"},
     deadline : 1..MaxDeadline, validator : {"Default"}, endpointOK : BOOLEAN,
     retries : 0..MaxRetries, headers : {CallerHeaders}, client : {HTTPClient}]

InitWith(in) ==
    /\ input = in
    /\ calls = [k \in CallIds |-> IdleCall]
    /\ parent = "live"
    /\ nfetch = 0
    /\ rx = RxIdle
    /\ prod = [k \in CallIds |-> "none"]
    /\ consumer = [subscribed |-> FALSE, items |-> <<>>, sawClose |-> FALSE]
    /\ code = 0
    /\ verdict = "unset"
    /\ arg = "none"
    /\ out = Unset

ServerStatuses == IF input.mode = "Fetch" THEN StatusCodes ELSE RetryStatusCodes

CallSteps ==
    \/ \E k \in CallIds : DoAbort(k)
    \/ \E k \in CallIds : DoTransportError(k)
    \/ \E k \in CallIds, st \in ServerStatuses : DoRespond(k, st)
    \/ \E k \in CallIds : CopyNChunk(k)
    \/ \E k \in CallIds : CopyNEOF(k)
    \/ \E k \in CallIds : CopyNError(k)
    \/ \E k \in CallIds : TimerFire(k)
    \/ CancelParent
    \/ Tick

\* A single direct call of Fetch.
Init == \E in \in FetchInputs : InitWith(in)

\* The caller asks for the description or the text of the error Fetch
\* returned.
DescribeSteps ==
    \/ \E k \in CallIds : CallGetErrorProperties(k)
    \/ \E k \in CallIds : CallError(k)
    \/ \E k \in CallIds : CallUnmarshalError(k)
    \/ \E k \in CallIds : ReadAllEOF(k)
    \/ \E k \in CallIds : ReadAllError(k)

Next == CallFetch \/ CallSteps \/ DescribeSteps

Spec == Init /\ [][Next]_vars

\* One FetchRx observable, its retries and its consumer.
InitRx == \E in \in FetchRxInputs : InitWith(in)

NextRx ==
    \/ CallFetchRx
    \/ RetryObserve
    \/ \E k \in CallIds : ProducerSendError(k)
    \/ \E k \in CallIds : ProducerSendOf(k)
    \/ \E k \in CallIds : InnerClose(k)
    \/ RetryRecvClosed
    \/ RetryWake
    \/ Observe
    \/ Receive
    \/ ReceiveClosed
    \/ CallSteps

SpecRx == InitRx /\ [][NextRx]_vars

\* The same with the goroutines scheduled: a step that can be taken is taken
\* in the end (every goroutine that can run does, timers fire, the consumer
\* keeps receiving).
SpecRxFair == InitRx /\ [][NextRx]_vars /\ WF_vars(NextRx)

\* Two goroutines call Fetch at the same time with the same parent context.
ParallelIds == {1, 2}

ParallelInputs ==
    [mode : {"Parallel"}, method : {"GET"}, req : {"ok"},
     deadline : 1..MaxDeadline, validator : {"Default"}, endpointOK : {TRUE},
     retries : {0}, headers : {CallerHeaders}, client : {HTTPClient}]

CallFetchParallel(k) ==
    /\ input.mode = "Parallel"
    /\ calls[k].pc = "idle"
    /\ \E lat \in 0..MaxLatency :
         calls' = [calls EXCEPT ![k] = FetchBegin(@, lat)]
    /\ nfetch' = nfetch + 1
    /\ input' = FetchArguments(input)
    /\ UNCHANGED <<parent, rx, prod, consumer, code, verdict, arg, out>>

InitParallel == \E in \in ParallelInputs : InitWith(in)

NextParallel ==
    \/ \E k \in ParallelIds : CallFetchParallel(k)
    \/ CallSteps

SpecParallel == InitParallel /\ [][NextParallel]_vars

\* One direct call of Fetch for each header map.
HeaderInputs ==
    [mode : {"Headers"}, method : {"GET"}, req : {"nil", "ok"},
     deadline : 1..MaxDeadline, validator : {"Default"}, endpointOK : BOOLEAN,
     retries : {0}, headers : HeaderMaps, client : {HTTPClient}]

CallFetchHeaders ==
    /\ input.mode = "Headers"
    /\ nfetch = 0
    /\ \E lat \in 0..MaxLatency :
         calls' = [calls EXCEPT ![1] = FetchBegin(@, lat)]
    /\ nfetch' = 1
    /\ input' = FetchArguments(input)
    /\ UNCHANGED <<parent, rx, prod, consumer, code, verdict, arg, out>>

InitHeaders == \E in \in HeaderInputs : InitWith(in)

NextHeaders == CallFetchHeaders \/ CallSteps

SpecHeaders == InitHeaders /\ [][NextHeaders]_vars

\* DefaultInvalidStatusCodeValidator applied to one status code.
ValidatorInput ==
    [mode |-> "Validator", method |-> "GET", req |-> "nil", deadline |-> 1,
     validator |-> "Default", endpointOK |-> TRUE, retries |-> 0,
     headers |-> NilMap, client |-> HTTPClient]

CallValidator ==
    /\ input.mode = "Validator"
    /\ verdict = "unset"
    /\ verdict' = IF DefaultInvalidStatusCodeValidator(code) THEN "invalid" ELSE "valid"
    /\ UNCHANGED <<input, calls, parent, nfetch, rx, prod, consumer, code, arg, out>>

InitValidator ==
    /\ input = ValidatorInput
    /\ calls = [k \in CallIds |-> IdleCall]
    /\ parent = "live"
    /\ nfetch = 0
    /\ rx = RxIdle
    /\ prod = [k \in CallIds |-> "none"]
    /\ consumer = [subscribed |-> FALSE, items |-> <<>>, sawClose |-> FALSE]
    /\ code \in MinCode..MaxCode
    /\ verdict = "unset"
    /\ arg = "none"
    /\ out = Unset

NextValidator == CallValidator

SpecValidator == InitValidator /\ [][NextValidator]_vars

\* Modes other than Fetch, FetchRx and Validator: a pure function applied to arg.
PureInput(mode) ==
    [mode |-> mode, method |-> "GET", req |-> "nil", deadline |-> 1,
     validator |-> "Default", endpointOK |-> TRUE, retries |-> 0,
     headers |-> NilMap, client |-> HTTPClient]

InitPure(mode, args) ==
    /\ input = PureInput(mode)
    /\ calls = [k \in CallIds |-> IdleCall]
    /\ parent = "live"
    /\ nfetch = 0
    /\ rx = RxIdle
    /\ prod = [k \in CallIds |-> "none"]
    /\ consumer = [subscribed |-> FALSE, items |-> <<>>, sawClose |-> FALSE]
    /\ code = 0
    /\ verdict = "unset"
    /\ arg \in args
    /\ out = Unset

\* ReadJSON applied to one input and one destination.
ReadJSONArgs == [doc : Docs, dst : Dsts]

CallReadJSON ==
    /\ input.mode = "ReadJSON"
    /\ ~out.done
    /\ out' = Returns(ReadJSON(arg.doc, arg.dst))
    /\ UNCHANGED <<input, calls, parent, nfetch, rx, prod, consumer, code, verdict, arg>>

InitReadJSON == InitPure("ReadJSON", ReadJSONArgs)

NextReadJSON == CallReadJSON

SpecReadJSON == InitReadJSON /\ [][NextReadJSON]_vars

\* To applied to one item.
ToValues ==
    {NilV, NilPtr, Plain("value"), Plain("otherptr")}
      \cup {Ptr(newResponse(b, k)) : b \in {"nil", "decoded"}, k \in CallIds}
      \cup {ErrV("errval", ErrInvalidHttpStatus(1))}
      \cup {ErrV("errptr", e) : e \in {ErrTimeOut, Err("transport")}}

ToErrors == {NoErr, ErrTimeOut, ErrInvalidHttpStatus(1), Err("transport")}

ToItems == [V : ToValues, E : ToErrors]

CallTo ==
    /\ input.mode = "To"
    /\ ~out.done
    /\ out' = Returns(To(arg))
    /\ UNCHANGED <<input, calls, parent, nfetch, rx, prod, consumer, code, verdict, arg>>

InitTo == InitPure("To", ToItems)

NextTo == CallTo

SpecTo == InitTo /\ [][NextTo]_vars

\* GetErrorProperties applied to one error value: the error, whether it comes
\* wrapped (fmt.Errorf with %w), and for an ErrInvalidHttpStatus the response
\* it holds (none, or one with a status, a body text and the outcome of
\* reading that body).
DescribeErrors ==
    {NoErr, ErrTimeOut, ErrMarshallValue, Err("transport"), Err("empty body"),
     ErrInvalidHttpStatus(1)}

DescribeArgs ==
    [err : DescribeErrors, wrapped : BOOLEAN, res : {"nil", "response"},
     status : {400, 599},
     readErr : {NoErr, Err("context.Canceled"), Err("transport")},
     text : BodyTexts]

\* errors.As(err, &ErrInvalidHttpStatus{}): looks through the wrapping.
ErrorsAsInvalidHttpStatus(a) == a.err.kind = "ErrInvalidHttpStatus"

\* The body of the response as GetErrorProperties finds it.  A wrapping
\* fmt.Errorf has called Error() to build its text, and that call has read
\* the body: to its end, or up to the error every later read meets again.
BodyAsFound(a) ==
    IF a.wrapped THEN [text |-> "", readErr |-> a.readErr]
    ELSE [text |-> a.text, readErr |-> a.readErr]

\* The whole of GetErrorProperties on such a value: how it ends, what it
\* returns, how many reads of a response body it issued.  e.Res.Body on a
\* nil Res is a nil dereference.
GetErrorPropertiesOfAlwaysReads(a) ==
    IF a.res = "nil"
    THEN [outcome |-> "panic", props |-> ZeroErrProps, reads |-> 0]
    ELSE [outcome |-> "returned",
          props |-> GetErrorProperties([err |-> a.err, status |-> a.status],
                                       ReadAll(BodyAsFound(a).text, BodyAsFound(a).readErr)),
          reads |-> 1]

GetErrorPropertiesOf(a) ==
    IF ~ErrorsAsInvalidHttpStatus(a)
    THEN [outcome |-> "returned", props |-> ZeroErrProps, reads |-> 0]
    ELSE IF a.res = "nil"
    THEN [outcome |-> "panic", props |-> ZeroErrProps, reads |-> 0]
    ELSE [outcome |-> "returned",
          props |-> GetErrorProperties([err |-> a.err, status |-> a.status],
                                       ReadAll(BodyAsFound(a).text, BodyAsFound(a).readErr)),
          reads |-> 1]

CallDescribe ==
    /\ input.mode = "Describe"
    /\ ~out.done
    /\ out' = Returns(GetErrorPropertiesOf(arg))
    /\ UNCHANGED <<input, calls, parent, nfetch, rx, prod, consumer, code, verdict, arg>>

InitDescribe == InitPure("Describe", DescribeArgs)

NextDescribe == CallDescribe

SpecDescribe == InitDescribe /\ [][NextDescribe]_vars

\* readBody applied to one timer and one body: the timer (nil or set), the
\* bytes the body holds, the error its read fails with (none: it is read to
\* end-of-input) and the result of Close.
ReadBodyArgs ==
    [timer : {"nil", "set"}, doc : Docs,
     readErr : {NoErr, Err("context.Canceled"), Err("transport")},
     closeErr : {NoErr, Err("close")}]

\* The whole of readBody: with a nil timer it leaves at once with
\* ErrTimerNotSet, else it reads; either way the deferred Close runs last.
readBodyOf(a) ==
    LET rb == IF a.timer = "nil" THEN readBody(ErrTimerNotSet, a.closeErr)
              ELSE readBody(a.readErr, a.closeErr)
    IN [data |-> [nil |-> ~rb.data, bytes |-> IF rb.data THEN a.doc ELSE <<>>],
        err |-> rb.err]

CallReadBody ==
    /\ input.mode = "ReadBody"
    /\ ~out.done
    /\ out' = Returns(readBodyOf(arg))
    /\ UNCHANGED <<input, calls, parent, nfetch, rx, prod, consumer, code, verdict, arg>>

InitReadBody == InitPure("ReadBody", ReadBodyArgs)

NextReadBody == CallReadBody

SpecReadBody == InitReadBody /\ [][NextReadBody]_vars

\* ================================================================ claims
Returned(k) == calls[k].pc = "returned"
InFlight(k) == calls[k].pc \in {"dispatch", "CopyN"}
Over(k) == calls[k].pc \in {"returned", "discarded"}

\* C1: with retries = N >= 1 Fetch is invoked at most N+1 times, and when the
\* retry loop gives up the item it hands to the consumer, and the only item
\* the consumer has once the stream is closed, is the error of the last Fetch.
C1_RetryBound ==
    input.retries >= 1 =>
        /\ nfetch <= input.retries + 1
        /\ rx.pc = "sendErr" => rx.item = Error(calls[nfetch].err) /\ calls[nfetch].err # NoErr
        /\ (rx.pc = "closed" /\ calls[nfetch].err # NoErr) =>
               consumer.items = <<Error(calls[nfetch].err)>>

C1_Witness ==
    /\ input.retries = MaxRetries
    /\ MaxRetries >= 1
    /\ nfetch = MaxRetries + 1
    /\ rx.pc = "closed"
    /\ consumer.items = <<Error(calls[nfetch].err)>>
    /\ calls[nfetch].err # NoErr

\* C2: with retries = 0 a failing Fetch is invoked exactly once: no back-off
\* sleep, no second attempt, and its error is the item delivered.
C2_ZeroRetries ==
    input.retries = 0 =>
        /\ nfetch <= 1
        /\ rx.pc # "sleep" /\ rx.numTries = 0
        /\ rx.pc = "sendErr" => nfetch = 1 /\ rx.item = Error(calls[1].err)
        /\ (rx.pc = "closed" /\ calls[1].err # NoErr) =>
               nfetch = 1 /\ consumer.items = <<Error(calls[1].err)>>

C2_Witness ==
    /\ input.mode = "FetchRx"
    /\ input.retries = 0
    /\ nfetch = 1
    /\ rx.pc = "closed"
    /\ calls[1].err # NoErr
    /\ consumer.items = <<Error(calls[1].err)>>

\* C3: attempts are sequential: at most one Fetch of the observable is in
\* flight, and attempt k+1 has started only if attempt k's Fetch is over.
C3_Sequential ==
    /\ Cardinality({k \in CallIds : InFlight(k)}) <= 1
    /\ \A k \in CallIds :
          (k + 1 \in CallIds /\ calls[k + 1].pc # "idle") => Over(k)

C3_Witness ==
    /\ input.mode = "FetchRx"
    /\ Over(1)
    /\ InFlight(2)

\* C4: when the deadline is shorter than the time the transport needs, do
\* returns an error matching ErrTimeOut and no response, and Fetch returns
\* that error and no envelope.
C4_Deadline ==
    \A k \in CallIds :
        (calls[k].doDone /\ input.deadline < calls[k].lat0) =>
            /\ ErrorsIs(calls[k].doRet.err, ErrTimeOut)
            /\ calls[k].doRet.res = 0
            /\ ~calls[k].hasRes
            /\ Returned(k) /\ calls[k].env = NoEnv /\ ErrorsIs(calls[k].err, ErrTimeOut)

C4_Witness ==
    \E k \in CallIds :
        /\ calls[k].doDone
        /\ input.deadline < calls[k].lat0
        /\ calls[k].ctx = "byTimer"
        /\ calls[k].timer = "fired"
        /\ ErrorsIs(calls[k].err, ErrTimeOut)

\* C5 (as stated): do returns an error matching ErrTimeOut only when this
\* call's own timer fired and canceled the derived context; any other
\* dispatch failure does not match ErrTimeOut.
C5_TimeOutOnlyByOwnTimer ==
    \A k \in CallIds :
        (calls[k].doDone /\ ErrorsIs(calls[k].doRet.err, ErrTimeOut)) =>
            calls[k].ctx = "byTimer" /\ calls[k].timer = "fired"

\* C6 (as stated): when the timer fires while the body is being read, the
\* read aborts and Fetch returns an error matching ErrTimeOut.
C6_ReadAbortIsTimeOut ==
    \A k \in CallIds :
        (Returned(k) /\ calls[k].ctx = "byTimer"
           /\ calls[k].readErr = Err("context.Canceled")) =>
            ErrorsIs(calls[k].err, ErrTimeOut)

\* C7 (as stated): whenever the transport returned a response, its body has
\* been closed exactly once by the time Fetch returns.
C7_BodyClosedOnce ==
    \A k \in CallIds :
        (Returned(k) /\ calls[k].hasRes) => calls[k].closed = 1

\* C8: on every return of do exactly one of the response and the error is
\* non-nil.
C8_ResponseXorError ==
    \A k \in CallIds :
        calls[k].doDone =>
            ((calls[k].doRet.res # 0) # (calls[k].doRet.err # NoErr))

C8_Witness ==
    \E k \in CallIds :
        /\ calls[k].doDone
        /\ calls[k].hasRes
        /\ calls[k].doRet.res = 0
        /\ calls[k].doRet.err = ErrInvalidHttpStatus(k)

\* C9: when the validator reports the response invalid, Fetch returns no
\* envelope and an ErrInvalidHttpStatus wrapping that very response, its body
\* unread; under the default validator that is the case for every status in
\* 400..599 and for none in 200..399.
C9_InvalidStatus ==
    \A k \in CallIds :
        (Returned(k) /\ calls[k].hasRes) =>
            /\ statusCodeValidator(input.validator, calls[k].status) =>
                  /\ calls[k].env = NoEnv
                  /\ calls[k].err = ErrInvalidHttpStatus(k)
                  /\ ~calls[k].bodyRead
            /\ (input.validator = "Default" /\ calls[k].status \in 400..599) =>
                  calls[k].err.kind = "ErrInvalidHttpStatus"
            /\ (input.validator = "Default" /\ calls[k].status \in 200..399) =>
                  calls[k].err.kind # "ErrInvalidHttpStatus"

C9_Witness ==
    \E k \in CallIds :
        /\ Returned(k)
        /\ input.validator = "Default"
        /\ calls[k].status = 599
        /\ calls[k].err = ErrInvalidHttpStatus(k)
        /\ ~calls[k].bodyRead

\* C10 (as stated): the default validator answers true exactly for the status
\* codes 400..599, over all codes 100..999.
C10_ValidatorExactly4xx5xx ==
    verdict # "unset" => ((verdict = "invalid") <=> (code \in 400..599))

\* C11 (as stated): Fetch called with a nil request pointer for a method that
\* carries a body returns an error matching ErrNilValue and issues no
\* transport call.
C11_NilRequestRejected ==
    \A k \in CallIds :
        (calls[k].pc # "idle" /\ input.req = "nil" /\ input.method \in BodyMethods) =>
            /\ Returned(k)
            /\ ErrorsIs(calls[k].err, ErrNilValue)
            /\ ~calls[k].sent

\* C12 (as stated): the outbound request carries a body only when the method
\* is POST, PUT or PATCH; for GET and DELETE it carries none, whatever
\* request value is supplied.
C12_BodyOnlyForBodyMethods ==
    \A k \in CallIds :
        (calls[k].sent /\ calls[k].bodyAttached) => input.method \in BodyMethods

StepsOf(k) == {calls[k].trace[i].step : i \in 1..Len(calls[k].trace)}

\* C13: for a response the validator accepts, status 204 makes Fetch return a
\* nil error and an envelope with a nil Body and the raw response, the body
\* neither read nor decoded; any other accepted status ends in an envelope
\* with a decoded, non-nil Body or in an error without envelope.
C13_NoContent ==
    \A k \in CallIds :
        (Returned(k) /\ calls[k].hasRes
           /\ ~statusCodeValidator(input.validator, calls[k].status)) =>
            IF calls[k].status = StatusNoContent
            THEN /\ calls[k].err = NoErr
                 /\ calls[k].env = newResponse("nil", k)
                 /\ ~calls[k].bodyRead
                 /\ StepsOf(k) \cap {"read", "decode"} = {}
            ELSE \/ calls[k].err = NoErr /\ calls[k].env = newResponse("decoded", k)
                 \/ calls[k].err # NoErr /\ calls[k].env = NoEnv

C13_Witness ==
    \E k \in CallIds :
        /\ Returned(k)
        /\ calls[k].status = StatusNoContent
        /\ calls[k].hasRes
        /\ calls[k].env = newResponse("nil", k)
        /\ calls[k].err = NoErr

\* C14 (as stated): the steps of one Fetch occur in the order serialize,
\* dispatch, status check, body read, decode, each at most once; a step that
\* fails is the last one executed and Fetch returns its error.
C14_StepsInOrderStopAtFailure ==
    \A k \in CallIds :
        LET t == calls[k].trace IN
        /\ \A i, j \in 1..Len(t) : i < j => StepRank(t[i].step) < StepRank(t[j].step)
        /\ \A i \in 1..Len(t) : t[i].err # NoErr => i = Len(t)
        /\ (Returned(k) /\ Len(t) > 0 /\ t[Len(t)].err # NoErr) =>
               /\ calls[k].err # NoErr
               /\ t[Len(t)].step # "read" => calls[k].err = t[Len(t)].err

\* C15: with a valid destination ReadJSON returns nil only for an input that
\* is exactly one well-formed value with declared fields only; empty input
\* gives the empty-body error, a truncated value the malformed-JSON error, an
\* undeclared field the unknown-key error, and a second value after a good
\* first one the single-value error.
C15_StrictDecode ==
    (out.done /\ arg.dst = "ptr") =>
        /\ (out.val = NoErr) <=> (arg.doc = <<"obj">>)
        /\ arg.doc = <<>> => out.val = Err("empty body")
        /\ (arg.doc # <<>> /\ Head(arg.doc) = "trunc") => out.val = Err("badly-formed JSON")
        /\ (arg.doc # <<>> /\ Head(arg.doc) = "unk") => out.val = Err("unknown key")
        /\ (Len(arg.doc) >= 2 /\ Head(arg.doc) = "obj") => out.val = Err("single JSON value")

C15_Witness ==
    /\ input.mode = "ReadJSON"
    /\ out.done
    /\ arg.dst = "ptr"
    /\ arg.doc = <<"obj", "obj">>
    /\ out.val = Err("single JSON value")

\* C16 (as stated): with a destination that is not a valid non-nil pointer
\* ReadJSON never returns, neither nil nor an ordinary error: it panics.
C16_InvalidDstPanics ==
    (out.done /\ input.mode = "ReadJSON" /\ arg.dst # "ptr") => out.val = Panic

\* C17: To applied to an item whose value is a pointer of type *T returns
\* that very pointer and a nil error, whatever the item's E holds.
C17_PointerIdentity ==
    (out.done /\ input.mode = "To" /\ arg.V.tag \in {"ptr", "nilptr"}) =>
        /\ out.val.itemPointer = arg.V
        /\ out.val.err = NoErr

C17_Witness ==
    /\ input.mode = "To"
    /\ out.done
    /\ arg.V.tag = "ptr"
    /\ arg.E # NoErr
    /\ out.val = [itemPointer |-> arg.V, err |-> NoErr]

\* C18: for a value that is no *T, To returns a nil pointer and: the item's
\* error when the value is nil and E is set; ErrEmptyItem when both are nil;
\* the value itself when it is an error; ErrNonPointerOrWrongCasting for any
\* other non-pointer and any other pointer type.
C18_ErrorCases ==
    (out.done /\ input.mode = "To" /\ arg.V.tag \notin {"ptr", "nilptr"}) =>
        /\ out.val.itemPointer = NilPtr
        /\ (arg.V.tag = "nil" /\ arg.E # NoErr) => out.val.err = arg.E
        /\ (arg.V.tag = "nil" /\ arg.E = NoErr) => out.val.err = ErrEmptyItem
        /\ arg.V.tag \in {"errval", "errptr"} => out.val.err = arg.V.err
        /\ arg.V.tag \in {"value", "otherptr"} =>
               out.val.err = ErrNonPointerOrWrongCasting

C18_Witness ==
    /\ input.mode = "To"
    /\ out.done
    /\ arg.V.tag = "errptr"
    /\ arg.E = NoErr
    /\ out.val = [itemPointer |-> NilPtr, err |-> arg.V.err]

\* C19 (as stated): for every item To returns a non-nil pointer with a nil
\* error or a nil pointer with a non-nil error, never a nil pointer with a
\* nil error.
C19_NeverNilNil ==
    (out.done /\ input.mode = "To") =>
        \/ out.val.itemPointer # NilPtr /\ out.val.err = NoErr
        \/ out.val.itemPointer = NilPtr /\ out.val.err # NoErr

InvalidStatus(k) == Returned(k) /\ calls[k].err.kind = "ErrInvalidHttpStatus"

\* C20 (as stated): GetErrorProperties applied to an invalid-status error of
\* Fetch returns the response's status code, its status text and, as
\* ErrMessage, the text of its body.
C20_DescriptionAsStated ==
    \A k \in CallIds :
        InvalidStatus(k) =>
            \A i \in 1..Len(calls[k].descs) :
                /\ calls[k].descs[i].StatusCode = calls[k].status
                /\ calls[k].descs[i].Status = ResStatus(calls[k].status)
                /\ calls[k].rd = "eof" => calls[k].descs[i].ErrMessage = calls[k].text

\* C20 (amended): the first GetErrorProperties on an invalid-status error
\* returns the response's status code and its status text when the body is
\* read to its end, with the body text coerced to valid UTF-8 when that
\* call is the one that read the body and with an empty text when an
\* earlier Error() or UnmarshalError() has read it; it returns the zero
\* description when the read fails.
C20_FirstDescription ==
    \A k \in CallIds :
        (InvalidStatus(k) /\ Len(calls[k].descs) >= 1) =>
            /\ calls[k].rd \in {"eof", "failed"}
            /\ calls[k].rd = "eof" =>
                   calls[k].descs[1] =
                       [StatusCode |-> calls[k].status,
                        Status |-> ResStatus(calls[k].status),
                        ErrMessage |-> IF calls[k].who = "GetErrorProperties"
                                       THEN CoerceUTF8(calls[k].text) ELSE ""]
            /\ calls[k].rd = "failed" => calls[k].descs[1] = ZeroErrProps

C20_Witness ==
    \E k \in CallIds :
        /\ InvalidStatus(k)
        /\ calls[k].status = 400
        /\ calls[k].rd = "eof"
        /\ calls[k].who = "GetErrorProperties"
        /\ calls[k].text = "text"
        /\ Len(calls[k].descs) = 1
        /\ calls[k].descs[1] =
               [StatusCode |-> 400, Status |-> ResStatus(400), ErrMessage |-> "text"]

\* C21: the body of an invalid-status error is read once, by the first
\* request of any kind (Error, UnmarshalError, GetErrorProperties): while
\* that read is under way no request has returned, no later request waits
\* in a read, and every request but the first finds empty content (an empty
\* ErrMessage).
C21_BodyReadOnce ==
    \A k \in CallIds :
        InvalidStatus(k) =>
            /\ calls[k].rd = "reading" => calls[k].descs = <<>> /\ calls[k].strs = <<>>
            /\ calls[k].rd # "none" => calls[k].who \in Describers
            /\ \A i \in 1..Len(calls[k].descs) :
                   (i >= 2 \/ calls[k].who # "GetErrorProperties") =>
                       calls[k].descs[i].ErrMessage = ""
            /\ \A i \in 1..Len(calls[k].strs) :
                   (i >= 2 \/ calls[k].who = "GetErrorProperties") =>
                       calls[k].strs[i].props.ErrMessage = ""
            /\ (calls[k].strs # <<>> /\ calls[k].who # "GetErrorProperties") =>
                   calls[k].strs[1].fn = calls[k].who

C21_Witness ==
    \E k \in CallIds :
        /\ InvalidStatus(k)
        /\ calls[k].rd = "eof"
        /\ calls[k].text = "text"
        /\ calls[k].who = "Error"
        /\ Len(calls[k].strs) = 1
        /\ calls[k].strs[1].props.ErrMessage = "text"
        /\ Len(calls[k].descs) = 1
        /\ calls[k].descs[1].ErrMessage = ""

\* C22 (as stated): for every error argument GetErrorProperties returns (it
\* does not panic), and whenever the error is no invalid-status error, holds
\* no response, or its body cannot be read, it returns the zero ErrProps.
C22_NeverPanicsZeroOnFailure ==
    (out.done /\ input.mode = "Describe") =>
        /\ out.val.outcome = "returned"
        /\ (~ErrorsAsInvalidHttpStatus(arg) \/ arg.res = "nil" \/ arg.readErr # NoErr) =>
               out.val.props = ZeroErrProps

\* C23: for an error that is not and does not wrap an ErrInvalidHttpStatus,
\* GetErrorProperties returns the zero ErrProps and reads no response body.
C23_OtherErrorsZeroNoRead ==
    (out.done /\ input.mode = "Describe" /\ ~ErrorsAsInvalidHttpStatus(arg)) =>
        /\ out.val.outcome = "returned"
        /\ out.val.props = ZeroErrProps
        /\ out.val.reads = 0

C23_Witness ==
    /\ input.mode = "Describe"
    /\ out.done
    /\ arg.err = ErrTimeOut
    /\ arg.wrapped
    /\ arg.res = "response"
    /\ arg.readErr = NoErr
    /\ out.val = [outcome |-> "returned", props |-> ZeroErrProps, reads |-> 0]

\* C24: with two Fetch calls running at the same time under one parent
\* context, the step in which one call's deadline timer fires changes nothing
\* of the other call: not its context, not its progress, not its result.
C24_TimerCancelsOwnCallOnly ==
    [][\A k \in CallIds :
          (calls[k].timer = "armed" /\ calls'[k].timer = "fired") =>
              \A j \in CallIds \ {k} : calls'[j] = calls[j]]_vars

C24_Witness ==
    /\ input.mode = "Parallel"
    /\ calls[1].timer = "fired"
    /\ calls[1].ctx = "byTimer"
    /\ ErrorsIs(calls[1].err, ErrTimeOut)
    /\ Returned(2)
    /\ calls[2].ctx = "live"
    /\ calls[2].err = NoErr
    /\ calls[2].env = newResponse("decoded", 2)

\* C25 (as stated): a deadline timer that has fired is not re-armed by any
\* later step of its call, and a context once canceled stays as it is under
\* any further cancellation.
C25_FiredTimerNeverRearmed ==
    [][\A k \in CallIds :
          /\ calls[k].timer = "fired" => calls'[k].timer = "fired"
          /\ Canceled(calls[k]) => calls'[k].ctx = calls[k].ctx]_vars

\* C26 (as stated): whatever the kind of the error, the retry loop gives up
\* only when the attempt cap is reached.
C26_RetryUntilCap ==
    rx.pc = "sendErr" => rx.numTries >= input.retries

\* C26 (amended): the kind of the error never decides.  The retry loop gives
\* up after a failed attempt only when the cap is reached or the back-off's
\* elapsed-time limit has passed; otherwise the attempt is dropped and the
\* next one is scheduled or started.
C26_RetryUnlessCapOrElapsed ==
    /\ rx.stop \in {"none", "cap", "elapsed"}
    /\ rx.pc = "sendErr" => rx.stop # "none"
    /\ rx.stop = "cap" => rx.numTries >= input.retries
    /\ rx.stop = "elapsed" => rx.numTries < input.retries
    /\ \A k \in CallIds :
          (prod[k] = "sendOf" /\ rx.stop = "none") =>
              /\ calls[k].pc = "discarded"
              /\ nfetch > k \/ rx.pc \in {"op", "sleep"}

C26_Witness ==
    /\ input.mode = "FetchRx"
    /\ input.req = "unserializable"
    /\ input.retries = MaxRetries
    /\ nfetch = MaxRetries + 1
    /\ rx.stop = "cap"
    /\ rx.pc = "sendErr"
    /\ ErrorsIs(rx.item.E, ErrMarshallValue)

\* C27: every attempt of FetchRx is a whole new Fetch.  The step that starts
\* attempt k starts from a blank call record, serializes the request again
\* and, when it dispatches, does so under a context derived anew from the
\* parent and a timer armed with the full deadline; the step in which an
\* attempt's timer fires changes no other attempt; and the envelope handed
\* on is the one of the attempt that just returned.
C27_AttemptsAreFresh ==
    [][\A k \in CallIds :
          /\ (calls[k].pc = "idle" /\ calls'[k].pc # "idle") =>
                /\ calls[k] = IdleCall
                /\ nfetch' = k
                /\ calls'[k].trace[1].step = "serialize"
                /\ calls'[k].sent =>
                      /\ calls'[k].ctx = WithCancel(parent)
                      /\ calls'[k].timer = "armed"
                      /\ calls'[k].tRem = input.deadline
          /\ (calls[k].timer = "armed" /\ calls'[k].timer = "fired") =>
                \A j \in CallIds \ {k} : calls'[j] = calls[j]
          /\ (rx.pc = "recv" /\ rx'.pc = "fwd" /\ rx.attempt = k) =>
                /\ k = nfetch
                /\ rx'.item = Of(calls[k])
                /\ rx'.item.V.env.Response = k]_vars

C27_Witness ==
    /\ input.mode = "FetchRx"
    /\ calls[1].pc = "discarded"
    /\ calls[1].timer = "fired"
    /\ calls[1].ctx = "byTimer"
    /\ nfetch = 2
    /\ Returned(2)
    /\ calls[2].ctx = "live"
    /\ calls[2].env = newResponse("decoded", 2)
    /\ rx.pc = "fwd"
    /\ rx.item = Of(calls[2])

\* C28: once an attempt of FetchRx has succeeded no further attempt is made,
\* the consumer receives nothing but one item holding that attempt's
\* envelope, and the stream is closed only after that item was received.
C28_SuccessSingleItem ==
    \A k \in CallIds :
        (input.mode = "FetchRx" /\ Returned(k) /\ calls[k].err = NoErr) =>
            /\ nfetch = k
            /\ rx.attempt = k
            /\ rx.pc \in {"recv", "fwd", "closed"}
            /\ consumer.items \in {<<>>, <<Of(calls[k])>>}
            /\ Of(calls[k]).V = Ptr(calls[k].env) /\ calls[k].env.Response = k
            /\ rx.pc = "closed" => consumer.items = <<Of(calls[k])>>

C28_Witness ==
    /\ input.mode = "FetchRx"
    /\ nfetch = 2
    /\ Returned(2)
    /\ calls[2].err = NoErr
    /\ consumer.items = <<Of(calls[2])>>
    /\ consumer.sawClose

\* C29 (as stated): no Fetch is started before the observable built by
\* FetchRx has been subscribed to with Observe.
C29_LazyStart ==
    (input.mode = "FetchRx" /\ nfetch > 0) => consumer.subscribed

\* C30: every return of Fetch yields exactly one of an envelope and an error.
C30_EnvelopeXorError ==
    \A k \in CallIds :
        Returned(k) => ((calls[k].env # NoEnv) # (calls[k].err # NoErr))

C30_Witness ==
    \E k \in CallIds :
        /\ Returned(k)
        /\ calls[k].bodyRead
        /\ calls[k].readErr # NoErr
        /\ calls[k].env = NoEnv
        /\ calls[k].err = Err("empty body")

\* C31: when json.Marshal rejects a non-nil request, the error Fetch returns
\* is the one toBytesReader built: it matches ErrMarshallValue and its text
\* carries the marshal message, quoted.  Nothing of do has run: no context,
\* no timer, no transport call, no later step.
C31_MarshalFailureStopsFetch ==
    \A k \in CallIds :
        (calls[k].pc # "idle" /\ calls[k].pc # "discarded"
            /\ MarshalError(input.req) # "") =>
            /\ Returned(k)
            /\ ErrorsIs(calls[k].err, ErrMarshallValue)
            /\ calls[k].err =
                   [kind |-> "ErrMarshallValue", res |-> 0,
                    msg |-> Quote(MarshalError(input.req))]
            /\ calls[k].env = NoEnv
            /\ ~calls[k].sent /\ ~calls[k].doDone /\ ~calls[k].hasRes
            /\ calls[k].timer = "none" /\ calls[k].ctx = "unset"
            /\ calls[k].trace = <<Step("serialize", calls[k].err)>>

C31_Witness ==
    /\ input.mode = "Fetch"
    /\ input.req = "unsupportedValue"
    /\ input.method = "POST"
    /\ Returned(1)
    /\ calls[1].err =
           [kind |-> "ErrMarshallValue", res |-> 0,
            msg |-> <<"\"", "json: unsupported value", "\"">>]
    /\ ~calls[1].sent

\* C32: no step of Fetch or FetchRx changes the HTTP client, the header map
\* or the request value the caller passed, whether the call succeeds, fails
\* or is retried.
C32_ArgumentsUnchanged ==
    [][input' = input]_vars

C32_Witness ==
    /\ input.mode = "FetchRx"
    /\ input.headers = CallerHeaders
    /\ input.client = HTTPClient
    /\ input.req = "ok"
    /\ nfetch = 2
    /\ calls[1].pc = "discarded"
    /\ calls[2].header # NoHeader
    /\ Returned(2)

\* C33: the request do sends carries every pair of the header map, each
\* value under the canonical form of its key, and has no key that is not the
\* canonical form of a key of the map; with a nil map it has no header.
C33_HeadersAreTheCallersOwn ==
    \A k \in CallIds :
        calls[k].sent =>
            /\ \A p \in input.headers.kv :
                   \E h \in calls[k].header :
                       /\ h[1] = CanonicalMIMEHeaderKey(p[1])
                       /\ h[2] = p[2]
                       /\ h[3] >= 1
            /\ \A h \in calls[k].header :
                   \E p \in input.headers.kv :
                       h[1] = CanonicalMIMEHeaderKey(p[1]) /\ h[2] = p[2]
            /\ input.headers.nil => calls[k].header = NoHeader

C33_Witness ==
    /\ input.mode = "Headers"
    /\ input.headers = MapOf({<<"accept", "a">>, <<"Accept", "b">>, <<"x-id", "a">>})
    /\ calls[1].sent
    /\ calls[1].header = {<<"Accept", "a", 1>>, <<"Accept", "b", 1>>, <<"X-Id", "a", 1>>}
    /\ calls[1].hasRes

\* C34 (as stated): readBody called with a nil timer returns ErrTimerNotSet,
\* after a failed chunk read it returns that failure, and it returns a nil
\* error only together with the complete bytes of the body.
C34_ReadBodyReportsFailure ==
    (out.done /\ input.mode = "ReadBody") =>
        /\ arg.timer = "nil" => out.val.err = ErrTimerNotSet
        /\ (arg.timer = "set" /\ arg.readErr # NoErr) => out.val.err = arg.readErr
        /\ out.val.err = NoErr =>
               /\ arg.timer = "set" /\ arg.readErr = NoErr
               /\ ~out.val.data.nil /\ out.val.data.bytes = arg.doc

\* C35: when the retry loop gives up at the attempt cap, the error item it
\* sends, and the one item the consumer then has, holds the error of the
\* last Fetch: every earlier attempt has been dropped, and an invalid-status
\* error wraps the response of the last attempt.
C35_LastAttemptsError ==
    (input.mode = "FetchRx" /\ rx.stop = "cap") =>
        /\ nfetch = input.retries + 1
        /\ rx.attempt = nfetch
        /\ Returned(nfetch) /\ calls[nfetch].err # NoErr
        /\ \A j \in 1..(nfetch - 1) : calls[j].pc = "discarded"
        /\ rx.pc \in {"sendErr", "closed"}
        /\ rx.pc = "sendErr" => rx.item = Error(calls[nfetch].err)
        /\ rx.pc = "closed" => consumer.items = <<Error(calls[nfetch].err)>>
        /\ calls[nfetch].err.kind = "ErrInvalidHttpStatus" =>
               /\ calls[nfetch].err.res = nfetch
               /\ calls[nfetch].hasRes
               /\ statusCodeValidator(input.validator, calls[nfetch].status)

C35_Witness ==
    /\ input.mode = "FetchRx"
    /\ input.retries = MaxRetries
    /\ rx.stop = "cap"
    /\ rx.pc = "closed"
    /\ nfetch = MaxRetries + 1
    /\ consumer.items = <<Error(ErrInvalidHttpStatus(nfetch))>>

\* C36: when the retry loop ends on a failure the consumer has received
\* exactly one item by the time it sees the stream closed, an error item
\* with no value.  The item the producer sends after its error item, the
\* nil envelope, reaches nobody: the producer stays at that send and the
\* consumer never holds an item with a nil envelope.
C36_OneErrorItemOnly ==
    input.mode = "FetchRx" =>
        /\ Len(consumer.items) <= 1
        /\ \A i \in 1..Len(consumer.items) : consumer.items[i].V # NilPtr
        /\ (rx.pc = "closed" /\ rx.stop # "none") =>
               /\ Len(consumer.items) = 1
               /\ consumer.items[1].E # NoErr
               /\ consumer.items[1].V = NilV
               /\ \A k \in 1..nfetch : prod[k] = "sendOf"

C36_Witness ==
    /\ input.mode = "FetchRx"
    /\ nfetch = 2
    /\ rx.pc = "closed"
    /\ rx.stop # "none"
    /\ consumer.sawClose
    /\ prod[1] = "sendOf" /\ prod[2] = "sendOf"
    /\ Len(consumer.items) = 1
    /\ consumer.items[1].E = ErrTimeOut

\* C37 (as stated): every producer started for an attempt of FetchRx ends
\* in the end: it returns after its last send.
C37_ProducersTerminate ==
    \A k \in CallIds :
        (prod[k] # "none") ~> (prod[k] \in {"returned", "closed"})

\* C38 (as stated): while Fetch runs, no step of it brings the firing of
\* its armed deadline timer nearer (only the passing of time does), and its
\* derived context is canceled by the function of that timer only.
C38_DeadlineNeverShortened ==
    [][Tick \/ \A k \in CallIds :
                  InFlight(k) =>
                      /\ (calls[k].timer = "armed" /\ calls'[k].timer = "armed") =>
                             calls'[k].tRem >= calls[k].tRem
                      /\ (~Canceled(calls[k]) /\ Canceled(calls'[k])) =>
                             /\ calls[k].timer = "armed" /\ calls[k].tRem = 0
                             /\ calls'[k].timer = "fired"
                             /\ calls'[k].ctx = "byTimer"]_vars

\* C39 (as stated): the first description of an invalid-status error holds
\* the response's status code, its status text and its body text whenever
\* it is asked for, before or after the deadline timer of the call has
\* fired (the caller's context being live and the connection sound).
C39_DescriptionAtAnyTime ==
    \A k \in CallIds :
        (InvalidStatus(k) /\ Len(calls[k].descs) >= 1 /\ parent = "live"
            /\ calls[k].who = "GetErrorProperties"
            /\ calls[k].readErr.kind # "transport") =>
            /\ calls[k].rd = "eof"
            /\ calls[k].descs[1] =
                   [StatusCode |-> calls[k].status,
                    Status |-> ResStatus(calls[k].status),
                    ErrMessage |-> CoerceUTF8(calls[k].text)]

====
